---- MODULE Spec2Model ----
(***************************************************************************)
(* Model of the IMC-2023 pipeline base class (imc2023/pipelines/pipeline.py)*)
(* and of the stand-alone crop engine (imc2023/cropping.py).               *)
(*                                                                         *)
(* File names are sequences of one-character strings, so that slicing      *)
(* (img[:-4]) and f-string concatenation are computed, not assumed.        *)
(* Images are records [w, h]; keypoint sets are sequences of <<x, y>>,     *)
(* 1-based here where the code is 0-based (index i of the code is i + 1).  *)
(***************************************************************************)
EXTENDS Integers, Sequences, FiniteSets, TLC

VARIABLES
    config,          \* self.config: shapes of "features" / "matches", n_retrieval
    args,            \* the argparse flags copied into self by __init__
    is_ensemble,     \* self.is_ensemble
    sparse_model,    \* self.sparse_model
    rotation_angles, \* self.rotation_angles
    timing,          \* self.timing
    paths,           \* self.paths.image_dir / rotated_image_dir (swapped by back_rotate_cameras)
    disk,            \* the files under self.paths
    pc,              \* position of the process: constructor, stage of run(), done, raised
    invoked,         \* stages run() has invoked so far, in order
    durations,       \* values of the dict literal of run() evaluated so far
    now,             \* time.time()
    engine_log,      \* engines invoked by the current run
    nruns,           \* number of Pipeline objects constructed so far
    crop,            \* locals of the crop loop (perform_cropping / crop_matching)
    rot              \* state of the keypoint rewrite of rotate_keypoints on one image

vars == <<config, args, is_ensemble, sparse_model, rotation_angles, timing, paths,
          disk, pc, invoked, durations, now, engine_log, nruns, crop, rot>>

pipeVars == <<config, args, is_ensemble, sparse_model, rotation_angles, timing, paths,
              disk, pc, invoked, durations, now, engine_log, nruns>>

----------------------------------------------------------------------------
(* Bounds of the model *)

MaxDim == 2        \* image width / height range over 1..MaxDim
MaxKps == 2        \* keypoints per image in the rotation rewrite
MaxRot == 2        \* successive rewrites applied to one image
MaxPairs == 2      \* pairs in the match store read by the crop loop
MaxRuns == 2       \* Pipeline objects constructed one after the other on the same disk
MaxConfs == 3      \* length of a list of feature / matching configurations
ThreshDen == 4     \* min/max_rel_crop_size range over 0/ThreshDen .. ThreshDen/ThreshDen

(* Program constants *)

MinMatches == 100  \* "if len(matches) < 100: continue"

----------------------------------------------------------------------------
(* Generic helpers *)

Range(s) == {s[i] : i \in DOMAIN s}

Min(S) == CHOOSE x \in S : \A y \in S : x <= y

Max(S) == CHOOSE x \in S : \A y \in S : x >= y

NoFile == "absent"

None == "None"

----------------------------------------------------------------------------
(* rotate_keypoints: the rewrite of one image's keypoints *)

\* new_keypoints = np.zeros_like(keypoints); one row of it after the if / elif chain
RotateKeypointSwapped(kp, angle, x_max, y_max) ==
    IF angle = 90 THEN <<kp[2], y_max - kp[1] - 1>>
    ELSE IF angle = 180 THEN <<x_max - kp[1] - 1, y_max - kp[2] - 1>>
    ELSE IF angle = 270 THEN <<x_max - kp[2] - 1, kp[1]>>
    ELSE <<0, 0>>

RotateKeypoint(kp, angle, x_max, y_max) ==
    IF angle = 90 THEN <<kp[2], x_max - kp[1] - 1>>
    ELSE IF angle = 180 THEN <<x_max - kp[1] - 1, y_max - kp[2] - 1>>
    ELSE IF angle = 270 THEN <<y_max - kp[2] - 1, kp[1]>>
    ELSE <<0, 0>>

\* the body of "for image_fn, angle in self.rotation_angles.items()";
\* image is cv2.imread(rotated_image_dir / image_fn): y_max, x_max = shape[:2]
RotateImageKeypoints(keypoints, angle, image) ==
    IF angle = 0 THEN keypoints
    ELSE [i \in DOMAIN keypoints |->
            RotateKeypoint(keypoints[i], angle, image.w, image.h)]

\* the size of an image turned by a multiple of 90 degrees
Turned(image, angle) ==
    IF angle \in {90, 270} THEN [w |-> image.h, h |-> image.w] ELSE image

----------------------------------------------------------------------------
(* File names *)

JpgExt == <<".", "j", "p", "g">>

\* img[:-4]: everything but the last four characters ("" when there are fewer)
DropLast4(img) == SubSeq(img, 1, Len(img) - 4)

\* pipeline.py: f"{img_1[:-4]}_{img_2[:-4]}_{k}.jpg"
PipelineCropNameNoSecond(img_1, img_2, k) ==
    DropLast4(img_1) \o <<"_", k>> \o JpgExt

PipelineCropName(img_1, img_2, k) ==
    DropLast4(img_1) \o <<"_">> \o DropLast4(img_2) \o <<"_", k>> \o JpgExt

\* cropping.py: f"{img_1}_{img_2}_{k}.jpg"
CroppingCropName(img_1, img_2, k) ==
    img_1 \o <<"_">> \o img_2 \o <<"_", k>> \o JpgExt

CropName(variant, img_1, img_2, k) ==
    IF variant = "pipeline" THEN PipelineCropName(img_1, img_2, k)
    ELSE CroppingCropName(img_1, img_2, k)

----------------------------------------------------------------------------
(* The crop loop: one iteration for one pair *)

\* sorted(scores)[k], k counted from 0
SortedAt(scores, k) ==
    CHOOSE v \in Range(scores) :
        /\ Cardinality({j \in DOMAIN scores : scores[j] < v}) <= k
        /\ k < Cardinality({j \in DOMAIN scores : scores[j] <= v})

\* 5 * np.quantile(scores, 0.2): linear interpolation at position 0.2 * (n - 1)
Quantile20x5(scores) ==
    LET n == Len(scores)
        lo == (n - 1) \div 5
        r == (n - 1) % 5
        hi == IF r = 0 THEN lo ELSE lo + 1
    IN 5 * SortedAt(scores, lo) + r * (SortedAt(scores, hi) - SortedAt(scores, lo))

\* matches[mask] with mask = scores >= threshold: the rows kept, in order
TopRows(scores) ==
    LET t5 == Quantile20x5(scores)
    IN {k \in DOMAIN scores : 5 * scores[k] >= t5}

\* a[start:stop] on an axis of length len: the first index kept and how many
SliceStart(start, len) == IF start < 0 THEN Max({start + len, 0}) ELSE Min({start, len})

SliceLen(start, stop, len) ==
    Max({SliceStart(stop, len) - SliceStart(start, len), 0})

\* original_image[ys.min() : ys.max() + 1, xs.min() : xs.max() + 1]
CropImage(image, top_kp) ==
    LET xs == {kp[1] : kp \in top_kp}
        ys == {kp[2] : kp \in top_kp}
    IN [x0 |-> SliceStart(Min(xs), image.w),
        y0 |-> SliceStart(Min(ys), image.h),
        w |-> SliceLen(Min(xs), Max(xs) + 1, image.w),
        h |-> SliceLen(Min(ys), Max(ys) + 1, image.h)]

\* ndarray.size of an image read by cv2.imread (three channels)
ImageSize(image) == image.h * image.w * 3

\* rel_size <= threshold, with rel_size = crop_size / orig_size and the
\* threshold the fraction thr.num / thr.den
RelLeq(crop_size, orig_size, thr) == crop_size * thr.den <= thr.num * orig_size

RelLt(crop_size, orig_size, thr) == crop_size * thr.den < thr.num * orig_size

RelGeq(crop_size, orig_size, thr) == crop_size * thr.den >= thr.num * orig_size

\* "if rel_size_1 <= min_rel_crop_size or rel_size_2 < min_rel_crop_size"
TooSmallSymmetric(s1, o1, s2, o2, min_rel) ==
    RelLeq(s1, o1, min_rel) \/ RelLeq(s2, o2, min_rel)

TooSmallNever(s1, o1, s2, o2, min_rel) == FALSE

TooSmall(s1, o1, s2, o2, min_rel) ==
    RelLeq(s1, o1, min_rel) \/ RelLt(s2, o2, min_rel)

\* "if rel_size_1 >= max_rel_crop_size and rel_size_2 >= max_rel_crop_size"
TooLarge(s1, o1, s2, o2, max_rel) ==
    RelGeq(s1, o1, max_rel) /\ RelGeq(s2, o2, max_rel)

\* (top_kp[:, 0].min(), top_kp[:, 1].min())
BoxMin(top_kp) == <<Min({kp[1] : kp \in top_kp}), Min({kp[2] : kp \in top_kp})>>

\* (top_kp[:, 0].max(), top_kp[:, 1].max())
BoxMax(top_kp) == <<Max({kp[1] : kp \in top_kp}), Max({kp[2] : kp \in top_kp})>>

\* "offsets[name] = (top_kp[:, 0].min(), top_kp[:, 1].min())"
OffsetOfTransposed(top_kp) == <<Min({kp[2] : kp \in top_kp}), Min({kp[1] : kp \in top_kp})>>

OffsetOf(top_kp) == <<Min({kp[1] : kp \in top_kp}), Min({kp[2] : kp \in top_kp})>>

\* The locals of one iteration of "for pair in tqdm(original_pairs)":
\* d is what the iteration reads: [kp_1, kp_2, matches, scores,
\* original_image_1, original_image_2]; matches rows are 0-based indices.
CropPair(variant, img_1, img_2, d, min_rel, max_rel) ==
    LET n == Len(d.matches)
        few == [outcome |-> "too_few", pair |-> <<img_1, img_2>>, n |-> n]
    IN IF n < MinMatches THEN few
       ELSE
        LET top == TopRows(d.scores)
            top_kp_1 == {d.kp_1[d.matches[k][1] + 1] : k \in top}
            top_kp_2 == {d.kp_2[d.matches[k][2] + 1] : k \in top}
            cropped_image_1 == CropImage(d.original_image_1, top_kp_1)
            cropped_image_2 == CropImage(d.original_image_2, top_kp_2)
            s1 == ImageSize(cropped_image_1)
            o1 == ImageSize(d.original_image_1)
            s2 == ImageSize(cropped_image_2)
            o2 == ImageSize(d.original_image_2)
            loc == [pair |-> <<img_1, img_2>>, n |-> n,
                    original_image_1 |-> d.original_image_1,
                    original_image_2 |-> d.original_image_2,
                    cropped_image_1 |-> cropped_image_1,
                    cropped_image_2 |-> cropped_image_2,
                    box_1 |-> [min |-> BoxMin(top_kp_1), max |-> BoxMax(top_kp_1)],
                    box_2 |-> [min |-> BoxMin(top_kp_2), max |-> BoxMax(top_kp_2)],
                    rel_size_1 |-> <<s1, o1>>, rel_size_2 |-> <<s2, o2>>]
        IN IF TooSmall(s1, o1, s2, o2, min_rel)
           THEN [outcome |-> "too_small"] @@ loc
           ELSE IF TooLarge(s1, o1, s2, o2, max_rel)
           THEN [outcome |-> "too_large"] @@ loc
           ELSE [outcome |-> "crop",
                 name_1 |-> CropName(variant, img_1, img_2, "1"),
                 name_2 |-> CropName(variant, img_1, img_2, "2"),
                 offset_1 |-> OffsetOf(top_kp_1),
                 offset_2 |-> OffsetOf(top_kp_2)] @@ loc

----------------------------------------------------------------------------
(* The external engines on crops, and the steps after the crop loop *)

EmptyStore == <<>>   \* a keyed container with no key

Keys(store) == DOMAIN store

\* extract_features.main(conf, image_dir=cropped_image_dir, feature_path=...):
\* one keypoint set per image of the directory, in that image's own pixel
\* space; the engine's answer for a crop of w x h pixels is its two corners.
ExtractCrops(image_dir) ==
    [name \in DOMAIN image_dir |->
        <<<<0, 0>>, <<image_dir[name].w - 1, image_dir[name].h - 1>>>>]

\* match_features.main(conf, pairs, features, matches): one match record per
\* pair of the pair list, rows indexing the two keypoint sets of `features`
MatchCrops(pairs, features) ==
    [p \in Range(pairs) |->
        [matches |-> [k \in 1..Min({Len(features[p[1]]), Len(features[p[2]])}) |->
                        <<k - 1, k - 1>>],
         scores |-> [k \in 1..Min({Len(features[p[1]]), Len(features[p[2]])}) |-> 2]]]

\* "keypoints[:,0] += offsets[name][0]; keypoints[:,1] += offsets[name][1]"
AddOffset(keypoints, offset) ==
    [k \in DOMAIN keypoints |->
        <<keypoints[k][1] + offset[1], keypoints[k][2] + offset[2]>>]

\* "for name in offsets.keys(): f[name]['keypoints'][...] = keypoints + offset"
TranslateKeypoints(features, offsets) ==
    [name \in DOMAIN features |->
        IF name \in DOMAIN offsets
        THEN AddOffset(features[name], offsets[name])
        ELSE features[name]]

\* write cropped_pairs_path, extract and match on the crops, translate the
\* crop keypoints: c is the record of the locals and of the crop files
CropPostProcess(c) ==
    LET feats == ExtractCrops(c.cropped_image_dir)
        mats == MatchCrops(c.crop_pairs, feats)
    IN [c EXCEPT !.cropped_pairs_path = c.crop_pairs,
                 !.cropped_features = TranslateKeypoints(feats, c.offsets),
                 !.cropped_matches = mats,
                 !.extract_calls = @ + 1,
                 !.match_calls = @ + 1]

\* the file written by cv2.imwrite: the crop and where it was cut from
CropFile(src, cropped_image) == [src |-> src] @@ cropped_image

\* the end of an accepted iteration: "save crops", "crop_pairs.append",
\* "offsets[name_1] = ...; offsets[name_2] = ..."
SaveCrop(c, r) ==
    [c EXCEPT !.cropped_image_dir =
                  (r.name_2 :> CropFile(r.pair[2], r.cropped_image_2))
                  @@ (r.name_1 :> CropFile(r.pair[1], r.cropped_image_1)) @@ @,
              !.crop_pairs = Append(@, <<r.name_1, r.name_2>>),
              !.offsets = (r.name_2 :> r.offset_2) @@ (r.name_1 :> r.offset_1) @@ @]

\* the locals at "crop_pairs = []; offsets = {}", with the crop files on disk
CropLocals(variant, min_rel, max_rel, original_pairs, cropped_image_dir) ==
    [variant |-> variant, min_rel |-> min_rel, max_rel |-> max_rel,
     original_pairs |-> original_pairs, i |-> 1, phase |-> "loop",
     crop_pairs |-> <<>>, offsets |-> <<>>,
     cropped_image_dir |-> cropped_image_dir,
     cropped_pairs_path |-> NoFile, cropped_features |-> NoFile,
     cropped_matches |-> NoFile, extract_calls |-> 0, match_calls |-> 0,
     last |-> [outcome |-> "none"]]

\* one iteration of the loop on data d, from the locals c
CropIteration(c, d) ==
    LET pair == c.original_pairs[c.i]
        r == CropPair(c.variant, pair[1], pair[2], d, c.min_rel, c.max_rel)
        next == [c EXCEPT !.i = @ + 1, !.last = r]
    IN IF r.outcome # "crop" THEN next
       ELSE IF c.variant = "pipeline" THEN SaveCrop(next, r)
       ELSE CropPostProcess(SaveCrop(next, r))

\* the statements after the loop, up to the translation of the crop keypoints
CropAfterLoop(c) ==
    IF c.variant = "pipeline"
    THEN [CropPostProcess(c) EXCEPT !.phase = "merge"]
    ELSE [c EXCEPT !.phase = "merge"]

----------------------------------------------------------------------------
(* Inputs of the crop loop *)

Thresholds == {[num |-> k, den |-> ThreshDen] : k \in 0..ThreshDen}

Images == {[w |-> w, h |-> h] : w \in 1..MaxDim, h \in 1..MaxDim}

\* the axis-aligned boxes of pixels of an image
Boxes(image) ==
    {b \in [x0 : 0..(image.w - 1), x1 : 0..(image.w - 1),
            y0 : 0..(image.h - 1), y1 : 0..(image.h - 1)] :
        b.x0 <= b.x1 /\ b.y0 <= b.y1}

\* the m-th pixel of a box, row by row, cyclically
BoxPixel(box, m) ==
    LET bw == box.x1 - box.x0 + 1
        bh == box.y1 - box.y0 + 1
    IN <<box.x0 + (m % bw), box.y0 + ((m \div bw) % bh)>>

\* a corner of the image, alternately top-left and bottom-right
Corner(image, m) == IF m % 2 = 0 THEN <<0, 0>> ELSE <<image.w - 1, image.h - 1>>

\* What one iteration reads for a pair with n matches: row k (from 1) is
\* <<k - 1, n - k>>; the first `low` rows score 1 and join keypoints at the
\* image corners, the others score 2 and join keypoints that fill a box.
PairData(n, low, im1, box1, im2, box2) ==
    [kp_1 |-> [k \in 1..n |-> IF k <= low THEN Corner(im1, k) ELSE BoxPixel(box1, k - low - 1)],
     kp_2 |-> [m \in 1..n |-> IF n - m + 1 <= low THEN Corner(im2, m) ELSE BoxPixel(box2, n - m)],
     matches |-> [k \in 1..n |-> <<k - 1, n - k>>],
     scores |-> [k \in 1..n |-> IF k <= low THEN 1 ELSE 2],
     original_image_1 |-> im1,
     original_image_2 |-> im2]

MatchCounts == {MinMatches - 1, MinMatches, MinMatches + 1}

\* <<n, low>>: n matches, the first `low` of them with the low score; a
\* fifth of the matches is where the 20% quantile interpolates
MatchProfiles ==
    {<<n, 0>> : n \in MatchCounts}
    \cup {<<MinMatches, MinMatches \div 5>>, <<MinMatches, (MinMatches \div 5) + 1>>}

NamesMatchProfiles == {<<n, 0>> : n \in MatchCounts}

\* the two images of a pair (taken by one camera: the same size), each with
\* the box its high-score keypoints fill
BoxedPairs ==
    UNION {{[im |-> im, box1 |-> b1, box2 |-> b2] : b1 \in Boxes(im), b2 \in Boxes(im)} :
             im \in Images}

ImgA == <<"a", ".", "j", "p", "g">>

ImgB == <<"b", ".", "j", "p", "g">>

\* image names with underscores, with equal stems, with a longer extension
NameSet ==
    {ImgA, ImgB,
     <<"a", "_", "b", ".", "j", "p", "g">>,
     <<"b", "_", "b", ".", "j", "p", "g">>,
     <<"a", ".", "p", "n", "g">>,
     <<"b", ".", "j", "p", "e", "g">>}

PairSet == {p \in NameSet \X NameSet : p[1] # p[2]}

\* the keys of a match store: distinct pairs, in the order they are listed
PairLists ==
    {<<p>> : p \in PairSet}
    \cup UNION {{<<p, q>> : q \in PairSet \ {p}} : p \in PairSet}

SmallImage == [w |-> 2, h |-> 1]

SmallBox == [x0 |-> 1, x1 |-> 1, y0 |-> 0, y1 |-> 0]

NamesBoxedPairs == {[im |-> SmallImage, box1 |-> SmallBox, box2 |-> SmallBox]}

----------------------------------------------------------------------------
(* The scene and the files of a run *)

img_list == <<ImgA, ImgB>>

Absent == [exists |-> FALSE]

File(data) == [exists |-> TRUE, data |-> data]

NoModel == [kind |-> "None"]

CorruptModel == [kind |-> "corrupt"]

\* the scene as photographed: every image with its size and the angle the
\* preprocessing finds it rotated by
InputDirs ==
    {[name \in Range(img_list) |->
        [image |-> SmallImage, angle |-> IF name = ImgA THEN a ELSE 0]] : a \in {0, 90}}

EmptyDisk(input_dir) ==
    [input_dir |-> File(input_dir),
     images |-> Absent, images_rotated |-> Absent,
     pairs_path |-> Absent, features_retrieval |-> Absent,
     features_path |-> Absent, rotated_features_path |-> Absent,
     features_1 |-> Absent, features_2 |-> Absent,
     matches_1 |-> Absent, matches_2 |-> Absent, matches_path |-> Absent,
     cropped_image_dir |-> File(EmptyStore), cropped_pairs_path |-> Absent,
     cropped_features_path |-> Absent, cropped_matches_path |-> Absent,
     sfm_dir |-> Absent, cache |-> Absent]

\* DataPaths: the two image folders, as the caller hands them to __init__
FreshPaths == [image_dir |-> "images", rotated_image_dir |-> "images_rotated"]

\* the images of one of the two folders
ReadDir(d, dir) == IF dir = "images" THEN d.images ELSE d.images_rotated

----------------------------------------------------------------------------
(* The collaborators of the stages: preprocessing, the concrete             *)
(* extract_features / match_features of a pipeline variant, hloc's engines, *)
(* the concatenation helpers, the reconstruction engines                    *)

\* preprocess_image_dir: the angles found, and the two image folders written
PreprocessAngles(input_dir) == [name \in DOMAIN input_dir |-> input_dir[name].angle]

PreprocessImages(input_dir) == [name \in DOMAIN input_dir |-> input_dir[name].image]

PreprocessRotated(input_dir) ==
    [name \in DOMAIN input_dir |-> Turned(input_dir[name].image, input_dir[name].angle)]

\* the box the features of an image fill: its last pixel for the first image
\* of the scene, the whole image for the others
FeatureBox(name, image) ==
    IF name = ImgA
    THEN [x0 |-> image.w - 1, x1 |-> image.w - 1, y0 |-> image.h - 1, y1 |-> image.h - 1]
    ELSE [x0 |-> 0, x1 |-> image.w - 1, y0 |-> 0, y1 |-> image.h - 1]

\* extract_features.main with the first (or only) configuration: MinMatches
\* keypoints per image, in the pixel space of the image it is given
ExtractMain(images) ==
    [name \in DOMAIN images |->
        [k \in 1..MinMatches |-> BoxPixel(FeatureBox(name, images[name]), k - 1)]]

\* extract_features.main with the second configuration of an ensemble
ExtractSecond(images) == [name \in DOMAIN images |-> <<<<0, 0>>>>]

\* match_features.main: n rows per pair of the pair list
MatchMain(pairs, n) ==
    [p \in Range(pairs) |->
        [matches |-> [k \in 1..n |-> <<k - 1, n - k>>], scores |-> [k \in 1..n |-> 2]]]

\* pairs_from_exhaustive.main / pairs_from_retrieval.main
AllPairs(names) == <<<<names[1], names[2]>>>>

\* concat_features(features1, features2, out_path): one store keyed by the
\* image identities of both, the second keypoints appended to the first
ConcatFeatures(f1, f2) ==
    [name \in DOMAIN f1 \cup DOMAIN f2 |->
        (IF name \in DOMAIN f1 THEN f1[name] ELSE <<>>)
        \o (IF name \in DOMAIN f2 THEN f2[name] ELSE <<>>)]

ShiftRows(rows, c1, c2) == [k \in DOMAIN rows |-> <<rows[k][1] + c1, rows[k][2] + c2>>]

KpCount(f, name) == IF name \in DOMAIN f THEN Len(f[name]) ELSE 0

\* concat_matches(matches1, matches2, ..., out_path): one store keyed by the
\* pair identities of both; the rows of the second index the keypoints
\* appended after the first store's (f1)
ConcatMatches(m1, m2, f1) ==
    [p \in DOMAIN m1 \cup DOMAIN m2 |->
        LET r1 == IF p \in DOMAIN m1 THEN m1[p] ELSE [matches |-> <<>>, scores |-> <<>>]
            r2 == IF p \in DOMAIN m2 THEN m2[p] ELSE [matches |-> <<>>, scores |-> <<>>]
        IN [matches |-> r1.matches
                        \o ShiftRows(r2.matches, KpCount(f1, p[1]), KpCount(f1, p[2])),
            scores |-> r1.scores \o r2.scores]]

\* a set of keys as a list (list_h5_names, sorted(...))
ListOf(S) == CHOOSE q \in [1..Cardinality(S) -> S] : Range(q) = S

\* the model reconstruction.main / PixSfM builds: every image registered
Reconstruction(names) ==
    [kind |-> "Reconstruction", images |-> [name \in Range(names) |-> [rz |-> 0]]]

\* rot_mat_z(angle) applied to a pose: a turn about the depth axis
RotMatZ(pose, angle) == [pose EXCEPT !.rz = (@ + 360 - angle) % 360]

----------------------------------------------------------------------------
(* The crop loop as a process: cropping.crop_matching(p) called on its own, *)
(* or the loop of Pipeline.perform_cropping                                *)

PipeIdle ==
    /\ config = None /\ args = None /\ is_ensemble = FALSE
    /\ sparse_model = None /\ rotation_angles = <<>> /\ timing = <<>>
    /\ paths = None /\ disk = None /\ pc = "idle" /\ invoked = <<>>
    /\ durations = <<>> /\ now = 0 /\ engine_log = <<>> /\ nruns = 0

RotIdle == rot = [phase |-> "idle"]

CropIdle == crop = [phase |-> "idle"]

CropLoopStepOn(profiles, boxed) ==
    /\ crop.phase = "loop"
    /\ crop.i <= Len(crop.original_pairs)
    /\ \E m \in profiles, s \in boxed :
         crop' = CropIteration(crop, PairData(m[1], m[2], s.im, s.box1, s.im, s.box2))
    /\ UNCHANGED <<pipeVars, rot>>

CropLoopStep == CropLoopStepOn(MatchProfiles, BoxedPairs)

CropLoopStepNames == CropLoopStepOn(NamesMatchProfiles, NamesBoxedPairs)

CropLoopEnd ==
    /\ crop.phase = "loop"
    /\ crop.i > Len(crop.original_pairs)
    /\ crop' = CropAfterLoop(crop)
    /\ UNCHANGED <<pipeVars, rot>>

InitCrop ==
    /\ PipeIdle /\ RotIdle
    /\ \E min_rel \in Thresholds, max_rel \in Thresholds :
         crop = CropLocals("pipeline", min_rel, max_rel, <<<<ImgA, ImgB>>>>, EmptyStore)

NextCrop == CropLoopStep \/ CropLoopEnd

SpecCrop == InitCrop /\ [][NextCrop]_vars

InitNames ==
    /\ PipeIdle /\ RotIdle
    /\ \E variant \in {"pipeline", "cropping"}, pairs \in PairLists :
         crop = CropLocals(variant, [num |-> 0, den |-> ThreshDen],
                           [num |-> ThreshDen, den |-> ThreshDen], pairs, EmptyStore)

NextNames == CropLoopStepNames \/ CropLoopEnd

SpecNames == InitNames /\ [][NextNames]_vars

----------------------------------------------------------------------------
(* Pipeline.__init__ *)

\* config["features"] / config["matches"]: a single configuration (a dict,
\* whose len() is its number of keys) or a list of configurations
FeatureShapes ==
    {[list |-> FALSE, len |-> 3]} \cup {[list |-> TRUE, len |-> n] : n \in 0..MaxConfs}

MatchShapes ==
    {[list |-> FALSE, len |-> 2]} \cup {[list |-> TRUE, len |-> n] : n \in 0..MaxConfs}

RetrievalCounts == {Len(img_list), Len(img_list) + 1}

Configs ==
    [features : FeatureShapes, matches : MatchShapes, n_retrieval : RetrievalCounts]

\* one feature configuration with one matching configuration, or two with two
WellFormedConfigs ==
    {c \in Configs :
        \/ ~c.features.list /\ ~c.matches.list
        \/ c.features = [list |-> TRUE, len |-> 2] /\ c.matches = [list |-> TRUE, len |-> 2]}

Args ==
    {a \in [pixsfm : BOOLEAN, pixsfm_max_imgs : {Len(img_list) - 1, Len(img_list)},
            rotation_matching : BOOLEAN, rotation_wrapper : BOOLEAN,
            cropping : BOOLEAN, overwrite : BOOLEAN,
            min_rel_crop_size : {[num |-> 1, den |-> ThreshDen]},
            max_rel_crop_size : {[num |-> ThreshDen - 1, den |-> ThreshDen]}] :
        ~a.pixsfm => a.pixsfm_max_imgs = Len(img_list)}

\* the two assert statements of __init__
EnsembleAsserts(cfg) ==
    /\ cfg.features.len = cfg.matches.len
    /\ cfg.features.len = 2

InitTimingKeys ==
    {"preprocess", "get_pairs", "extract_features", "match_features", "create_ensemble",
     "rotate_keypoints", "sfm", "localize_unregistered", "back-rotate-cameras"}

Construct(cfg, a) ==
    /\ config' = cfg
    /\ args' = a
    /\ sparse_model' = NoModel
    /\ is_ensemble' = cfg.features.list
    /\ rotation_angles' = <<>>
    /\ paths' = FreshPaths
    /\ IF cfg.features.list /\ ~EnsembleAsserts(cfg)
       THEN pc' = "config_error" /\ timing' = <<>>
       ELSE pc' = "preprocess" /\ timing' = [k \in InitTimingKeys |-> 0]
    /\ invoked' = <<>> /\ durations' = <<>> /\ now' = 0 /\ engine_log' = <<>>
    /\ nruns' = nruns + 1
    /\ UNCHANGED <<disk, crop, rot>>

----------------------------------------------------------------------------
(* Pipeline.run and its stages *)

StageOrder ==
    <<"preprocess", "get_pairs", "extract_features", "match_features", "create_ensemble",
      "perform_cropping", "rotate_keypoints", "sfm", "back_rotate_cameras",
      "localize_unregistered">>

\* the keys of the dict literal of run(), in the order of its entries
TimingKeys ==
    <<"preprocessing", "pairs-extraction", "feature-extraction", "feature-matching",
      "create-ensemble", "image-cropping", "rotate-keypoints", "sfm",
      "back-rotate-cameras", "localize-unreg">>

StageIndex(stage) == CHOOSE i \in DOMAIN StageOrder : StageOrder[i] = stage

After(stage) ==
    IF StageIndex(stage) = Len(StageOrder) THEN "done"
    ELSE StageOrder[StageIndex(stage) + 1]

\* time_function(func)(): "start = time.time(); func(); return time.time() - start"
time_function_reversed(start, end) == start - end

time_function(start, end) == end - start

\* self.timing = {...}, once every entry of the literal is evaluated
RunTiming(d) ==
    [k \in Range(TimingKeys) |-> d[CHOOSE i \in DOMAIN TimingKeys : TimingKeys[i] = k]]

\* whether the output of a stage is on disk already
OutputExists(stage) ==
    CASE stage = "get_pairs" -> disk.pairs_path.exists
      [] stage = "create_ensemble" -> disk.matches_path.exists
      [] stage = "perform_cropping" ->
            disk.cropped_features_path.exists /\ disk.cropped_matches_path.exists
      [] stage = "rotate_keypoints" -> disk.features_path.exists
      [] stage = "sfm" ->
            disk.sfm_dir.exists /\ disk.sfm_dir.data.kind = "Reconstruction"
      [] OTHER -> FALSE

Resumable(stage) == OutputExists(stage) /\ ~args.overwrite

Logged(stage, engines) ==
    engine_log \o [i \in DOMAIN engines |->
                    [stage |-> stage, engine |-> engines[i], resumable |-> Resumable(stage)]]

\* the stage returns, having called `engines`: the clock ticks once per call
Returns(stage, engines) ==
    LET end == now + Len(engines)
        d == Append(durations, time_function(now, end))
    IN /\ pc' = After(stage)
       /\ invoked' = Append(invoked, stage)
       /\ now' = end
       /\ durations' = d
       /\ engine_log' = Logged(stage, engines)
       /\ timing' = IF After(stage) = "done" THEN RunTiming(d) ELSE timing

\* the stage raises, and run() with it
Raises(stage, engines) ==
    /\ pc' = "raised"
    /\ invoked' = Append(invoked, stage)
    /\ now' = now + Len(engines)
    /\ engine_log' = Logged(stage, engines)
    /\ UNCHANGED <<durations, timing>>

Preprocess ==
    /\ pc = "preprocess"
    /\ rotation_angles' = PreprocessAngles(disk.input_dir.data)
    /\ disk' = [disk EXCEPT !.images = File(PreprocessImages(disk.input_dir.data)),
                            !.images_rotated = File(PreprocessRotated(disk.input_dir.data))]
    /\ Returns("preprocess", <<"preprocess_image_dir">>)
    /\ UNCHANGED <<config, args, is_ensemble, sparse_model, paths, nruns, crop, rot>>

GetPairs ==
    /\ pc = "get_pairs"
    /\ IF Len(img_list) < config.n_retrieval
       THEN /\ disk' = [disk EXCEPT !.pairs_path = File(AllPairs(img_list))]
            /\ Returns("get_pairs", <<"pairs_from_exhaustive">>)
       ELSE IF disk.pairs_path.exists /\ ~args.overwrite
       THEN /\ UNCHANGED disk
            /\ Returns("get_pairs", <<>>)
       ELSE /\ disk' = [disk EXCEPT !.features_retrieval = File("descriptors"),
                                    !.pairs_path = File(AllPairs(img_list))]
            /\ Returns("get_pairs", <<"extract_features", "pairs_from_retrieval">>)
    /\ UNCHANGED <<config, args, is_ensemble, sparse_model, rotation_angles, paths,
                   nruns, crop, rot>>

\* extract_features of a concrete pipeline: on the rotated images when a
\* rotation mode is on, one store per configuration of an ensemble
ExtractFeatures ==
    /\ pc = "extract_features"
    /\ LET dir == IF args.rotation_matching \/ args.rotation_wrapper
                  THEN paths.rotated_image_dir ELSE paths.image_dir
           images == ReadDir(disk, dir).data
       IN IF is_ensemble
          THEN /\ disk' = [disk EXCEPT !.features_1 = File(ExtractMain(images)),
                                       !.features_2 = File(ExtractSecond(images))]
               /\ Returns("extract_features", <<"extract_features", "extract_features">>)
          ELSE /\ disk' = IF args.rotation_matching
                          THEN [disk EXCEPT !.rotated_features_path = File(ExtractMain(images))]
                          ELSE [disk EXCEPT !.features_path = File(ExtractMain(images))]
               /\ Returns("extract_features", <<"extract_features">>)
    /\ UNCHANGED <<config, args, is_ensemble, sparse_model, rotation_angles, paths,
                   nruns, crop, rot>>

\* match_features of a concrete pipeline: the pairs of the pair list
MatchFeatures ==
    /\ pc = "match_features"
    /\ \E n \in {MinMatches - 1, MinMatches} :
         IF is_ensemble
         THEN /\ disk' = [disk EXCEPT !.matches_1 = File(MatchMain(disk.pairs_path.data, n)),
                                      !.matches_2 = File(MatchMain(disk.pairs_path.data, 1))]
              /\ Returns("match_features", <<"match_features", "match_features">>)
         ELSE /\ disk' = [disk EXCEPT !.matches_path = File(MatchMain(disk.pairs_path.data, n))]
              /\ Returns("match_features", <<"match_features">>)
    /\ UNCHANGED <<config, args, is_ensemble, sparse_model, rotation_angles, paths,
                   nruns, crop, rot>>

CreateEnsemble ==
    /\ pc = "create_ensemble"
    /\ IF ~is_ensemble
       THEN /\ UNCHANGED disk
            /\ Returns("create_ensemble", <<>>)
       ELSE LET f == ConcatFeatures(disk.features_1.data, disk.features_2.data)
                m == ConcatMatches(disk.matches_1.data, disk.matches_2.data,
                                   disk.features_1.data)
                d == [disk EXCEPT !.matches_path = File(m),
                                  !.pairs_path = File(ListOf(DOMAIN m))]
            IN /\ disk' = IF args.rotation_matching
                          THEN [d EXCEPT !.rotated_features_path = File(f)]
                          ELSE [d EXCEPT !.features_path = File(f)]
               /\ Returns("create_ensemble", <<"concat_features", "concat_matches">>)
    /\ UNCHANGED <<config, args, is_ensemble, sparse_model, rotation_angles, paths,
                   nruns, crop, rot>>

\* the loop of perform_cropping over all original pairs, on the stores read
\* from features_path and matches_path and the images of image_dir
RECURSIVE CropLoopAll(_, _, _, _)
CropLoopAll(c, features, matches, images) ==
    IF c.i > Len(c.original_pairs) THEN c
    ELSE LET pair == c.original_pairs[c.i]
         IN IF ~({pair[1], pair[2]} \subseteq DOMAIN features \cap DOMAIN images)
            THEN [c EXCEPT !.phase = "raised"]
            ELSE CropLoopAll(
                    CropIteration(c, [kp_1 |-> features[pair[1]],
                                      kp_2 |-> features[pair[2]],
                                      matches |-> matches[pair].matches,
                                      scores |-> matches[pair].scores,
                                      original_image_1 |-> images[pair[1]],
                                      original_image_2 |-> images[pair[2]]]),
                    features, matches, images)

PerformCropping ==
    /\ pc = "perform_cropping"
    /\ IF ~args.cropping
       THEN /\ UNCHANGED disk
            /\ Returns("perform_cropping", <<>>)
       ELSE IF ~disk.matches_path.exists \/ ~disk.features_path.exists
       THEN /\ UNCHANGED disk
            /\ Raises("perform_cropping", <<>>)
       ELSE LET c == CropLoopAll(
                        CropLocals("pipeline", args.min_rel_crop_size,
                                   args.max_rel_crop_size,
                                   ListOf(DOMAIN disk.matches_path.data),
                                   disk.cropped_image_dir.data),
                        disk.features_path.data, disk.matches_path.data,
                        ReadDir(disk, paths.image_dir).data)
                e == CropAfterLoop(c)
            IN IF c.phase = "raised"
               THEN /\ disk' = [disk EXCEPT !.cropped_image_dir = File(c.cropped_image_dir)]
                    /\ Raises("perform_cropping", <<>>)
               ELSE /\ disk' = [disk EXCEPT
                            !.cropped_image_dir = File(e.cropped_image_dir),
                            !.cropped_pairs_path = File(e.cropped_pairs_path),
                            !.cropped_features_path = File(e.cropped_features),
                            !.cropped_matches_path = File(e.cropped_matches),
                            !.features_path =
                                File(ConcatFeatures(disk.features_path.data,
                                                    e.cropped_features)),
                            !.matches_path =
                                File(ConcatMatches(disk.matches_path.data,
                                                   e.cropped_matches,
                                                   disk.features_path.data))]
                    /\ Returns("perform_cropping",
                               <<"extract_features", "match_features",
                                 "concat_features", "concat_matches">>)
    /\ UNCHANGED <<config, args, is_ensemble, sparse_model, rotation_angles, paths,
                   nruns, crop, rot>>

\* the store after "for image_fn, angle in self.rotation_angles.items()"
RotateAllKeypoints(features, angles, images) ==
    [name \in DOMAIN features |->
        IF name \in DOMAIN angles /\ angles[name] # 0
        THEN RotateImageKeypoints(features[name], angles[name], images[name])
        ELSE features[name]]

RotateKeypoints ==
    /\ pc = "rotate_keypoints"
    /\ IF ~args.rotation_matching
       THEN /\ UNCHANGED disk
            /\ Returns("rotate_keypoints", <<>>)
       ELSE IF ~disk.rotated_features_path.exists
       THEN /\ UNCHANGED disk
            /\ Raises("rotate_keypoints", <<>>)
       ELSE /\ disk' = [disk EXCEPT !.features_path =
                          File(RotateAllKeypoints(disk.rotated_features_path.data,
                                                  rotation_angles,
                                                  ReadDir(disk, paths.rotated_image_dir).data))]
            /\ Returns("rotate_keypoints", <<"copy">>)
    /\ UNCHANGED <<config, args, is_ensemble, sparse_model, rotation_angles, paths,
                   nruns, crop, rot>>

\* pycolmap.Reconstruction(sfm_dir): the model of the folder, ValueError
\* (here NoModel) on a folder that holds no valid model
Load(file) ==
    IF file.exists /\ file.data.kind = "Reconstruction" THEN file.data ELSE NoModel

\* what the PixSfM subprocess leaves in sfm_dir
PixSfmWrites(outcome, before) ==
    CASE outcome = "model" -> File(Reconstruction(img_list))
      [] outcome = "corrupt" -> File(CorruptModel)
      [] OTHER -> before

Sfm ==
    /\ pc = "sfm"
    /\ IF disk.sfm_dir.exists /\ ~args.overwrite /\ Load(disk.sfm_dir).kind # "None"
       THEN /\ sparse_model' = Load(disk.sfm_dir)
            /\ UNCHANGED disk
            /\ Returns("sfm", <<>>)
       ELSE IF args.pixsfm /\ Len(img_list) <= args.pixsfm_max_imgs
       THEN \E outcome \in {"model", "corrupt", "nothing", "exception"} :
              LET written == PixSfmWrites(outcome, disk.sfm_dir)
                  loaded == IF outcome = "exception" THEN NoModel ELSE Load(written)
              IN /\ sparse_model' = loaded
                 /\ disk' = [disk EXCEPT !.cache = File("cache"),
                                         !.sfm_dir = IF loaded.kind # "None"
                                                     THEN File(loaded) ELSE written]
                 /\ Returns("sfm", <<"pixsfm">>)
       ELSE \E outcome \in {"model", "none"} :
              LET built == IF outcome = "model" THEN Reconstruction(img_list) ELSE NoModel
              IN /\ sparse_model' = built
                 /\ disk' = IF built.kind # "None"
                            THEN [disk EXCEPT !.sfm_dir = File(built)] ELSE disk
                 /\ Returns("sfm", <<"reconstruction">>)
    /\ UNCHANGED <<config, args, is_ensemble, rotation_angles, paths, nruns, crop, rot>>

BackRotateCameras ==
    /\ pc = "back_rotate_cameras"
    /\ IF ~args.rotation_wrapper
       THEN /\ UNCHANGED <<sparse_model, paths>>
            /\ Returns("back_rotate_cameras", <<>>)
       ELSE IF sparse_model.kind = "None"
       THEN /\ UNCHANGED <<sparse_model, paths>>
            /\ Raises("back_rotate_cameras", <<>>)
       ELSE /\ sparse_model' =
                 [sparse_model EXCEPT !.images =
                    [name \in DOMAIN sparse_model.images |->
                        IF rotation_angles[name] # 0
                        THEN RotMatZ(sparse_model.images[name], rotation_angles[name])
                        ELSE sparse_model.images[name]]]
            /\ paths' = [image_dir |-> paths.rotated_image_dir,
                         rotated_image_dir |-> paths.image_dir]
            /\ Returns("back_rotate_cameras", <<>>)
    /\ UNCHANGED <<config, args, is_ensemble, rotation_angles, disk, nruns, crop, rot>>

LocalizeUnregistered ==
    /\ pc = "localize_unregistered"
    /\ Returns("localize_unregistered", <<>>)
    /\ UNCHANGED <<config, args, is_ensemble, sparse_model, rotation_angles, paths,
                   disk, nruns, crop, rot>>

\* Pipeline(config, ..., args).run() on a scene not processed before
Start ==
    /\ pc = "new"
    /\ \E cfg \in WellFormedConfigs, a \in Args : Construct(cfg, a)

\* a second Pipeline on the same output folders, with the same configuration;
\* the caller may switch the rotation modes, the crop augmentation and the
\* overwrite flag
Rerun ==
    /\ pc \in {"done", "raised"}
    /\ nruns < MaxRuns
    /\ \E a \in Args :
         /\ \A f \in {"pixsfm", "pixsfm_max_imgs"} : a[f] = args[f]
         /\ Construct(config, a)

NewPipeline(input_dir) ==
    /\ config = None /\ args = None /\ is_ensemble = FALSE
    /\ sparse_model = NoModel /\ rotation_angles = <<>> /\ timing = <<>>
    /\ paths = FreshPaths /\ disk = EmptyDisk(input_dir) /\ pc = "new"
    /\ invoked = <<>> /\ durations = <<>> /\ now = 0 /\ engine_log = <<>>
    /\ nruns = 0

Init ==
    /\ \E input_dir \in InputDirs : NewPipeline(input_dir)
    /\ CropIdle /\ RotIdle

Next ==
    \/ Start
    \/ Preprocess
    \/ GetPairs
    \/ ExtractFeatures
    \/ MatchFeatures
    \/ CreateEnsemble
    \/ PerformCropping
    \/ RotateKeypoints
    \/ Sfm
    \/ BackRotateCameras
    \/ LocalizeUnregistered
    \/ Rerun

Spec == Init /\ [][Next]_vars

\* the constructor alone, on every shape of configuration
ConstructAny ==
    /\ pc = "new"
    /\ \E cfg \in Configs, a \in Args : Construct(cfg, a)

NextInit == ConstructAny

SpecInit == Init /\ [][NextInit]_vars

----------------------------------------------------------------------------
(* The keypoint rewrite of rotate_keypoints on one image, applied again to  *)
(* its own result: after a rewrite by 90 or 270 the keypoints live in an    *)
(* image whose width and height are exchanged.                              *)

RotatedImages == Images \cup {[w |-> 100, h |-> 50]}

Pixels(image) ==
    IF image.w <= MaxDim /\ image.h <= MaxDim
    THEN (0..(image.w - 1)) \X (0..(image.h - 1))
    ELSE {<<0, 0>>, <<10, 20>>, <<image.w - 1, image.h - 1>>}

KeypointSets(image) ==
    UNION {[1..n -> Pixels(image)] : n \in 0..MaxKps}

Angles == {0, 90, 180, 270}

RotateStep ==
    /\ rot.phase = "rotate"
    /\ Len(rot.applied) < MaxRot
    /\ \E angle \in Angles :
         rot' = [rot EXCEPT
                   !.keypoints = RotateImageKeypoints(@, angle, rot.image),
                   !.image = Turned(@, angle),
                   !.applied = Append(@, angle)]
    /\ UNCHANGED <<pipeVars, crop>>

InitRot ==
    /\ PipeIdle /\ CropIdle
    /\ \E image \in RotatedImages :
         \E keypoints \in KeypointSets(image) :
            rot = [phase |-> "rotate", image0 |-> image, image |-> image,
                   keypoints0 |-> keypoints, keypoints |-> keypoints,
                   applied |-> <<>>]

NextRot == RotateStep

SpecRot == InitRot /\ [][NextRot]_vars

----------------------------------------------------------------------------
(* Claims about the orchestrator *)

\* C1: the stages invoked so far are always an initial part of the fixed
\* order, each once; when run() has completed all ten were invoked and the
\* timing report has exactly the ten entries of run(), each the non-negative
\* duration of its stage, also for disabled or resumed stages.
C1_TenStagesTenDurations ==
    /\ Len(invoked) <= Len(StageOrder)
    /\ \A i \in DOMAIN invoked : invoked[i] = StageOrder[i]
    /\ \A i \in DOMAIN durations : durations[i] >= 0
    /\ pc = "done" =>
         /\ invoked = StageOrder
         /\ DOMAIN timing = Range(TimingKeys)
         /\ Cardinality(DOMAIN timing) = 10
         /\ \A i \in DOMAIN TimingKeys :
              timing[TimingKeys[i]] = durations[i] /\ timing[TimingKeys[i]] >= 0

\* a second run completed with ensemble and cropping disabled and the
\* reconstruction resumed from disk in no time, after a preprocessing that
\* took time
C1_Witness ==
    /\ pc = "done" /\ nruns = 2
    /\ ~is_ensemble /\ ~args.cropping
    /\ timing["sfm"] = 0 /\ timing["create-ensemble"] = 0
    /\ timing["preprocessing"] > 0

\* C2: no engine is ever invoked by a stage whose output was on disk when
\* the stage started with overwrite false.
C2_ResumedStagesInvokeNoEngine ==
    \A i \in DOMAIN engine_log : ~engine_log[i].resumable

\* C3: the constructor raises exactly on the configurations that are neither
\* two feature configurations with two matching configurations nor a single
\* feature configuration with a single matching configuration.
C3_ConstructorRejectsOtherShapes ==
    pc \in {"preprocess", "config_error"} =>
        (pc = "preprocess" <=>
            \/ ~config.features.list /\ ~config.matches.list
            \/ /\ config.features.list /\ config.features.len = 2
               /\ config.matches.list /\ config.matches.len = 2)

\* C4: with the sparse model absent after the reconstruction stage, the
\* back-rotation stage does not raise, whatever the rotation-wrapper mode.
C4_BackRotationNoOpOnAbsentModel ==
    ~(/\ pc = "raised"
      /\ Len(invoked) = StageIndex("back_rotate_cameras")
      /\ sparse_model.kind = "None")

OriginalPairs == {<<a, b>> : a \in Range(img_list), b \in Range(img_list)}

\* C5: when the crop augmentation has returned, the keys of the primary
\* keypoint store are image names of the scene and the keys of the primary
\* match store are pairs of them.
C5_MergeKeyedByOriginals ==
    (pc = "rotate_keypoints" /\ args.cropping) =>
        /\ DOMAIN disk.features_path.data \subseteq Range(img_list)
        /\ DOMAIN disk.matches_path.data \subseteq OriginalPairs

\* C6: when the reconstruction stage starts, both images of every pair of
\* the match store have a keypoint set in the keypoint store, and every row
\* of the pair indexes into these two sets.
C6_MatchIndicesValidAtSfm ==
    (pc = "sfm" /\ disk.features_path.exists /\ disk.matches_path.exists) =>
        \A p \in DOMAIN disk.matches_path.data :
            /\ {p[1], p[2]} \subseteq DOMAIN disk.features_path.data
            /\ \A k \in DOMAIN disk.matches_path.data[p].matches :
                 LET row == disk.matches_path.data[p].matches[k]
                 IN /\ row[1] \in 0..(Len(disk.features_path.data[p[1]]) - 1)
                    /\ row[2] \in 0..(Len(disk.features_path.data[p[2]]) - 1)

----------------------------------------------------------------------------
(* Claims about the keypoint rewrite and the crop loop *)

\* C7: the 90 rewrite of a keypoint (x, y) of a rotated image of width W is
\* (y, W - 1 - x), e.g. (10, 20) in a 100 x 50 image becomes (20, 89); the
\* 270 rewrite of that result, with the exchanged dimensions, gives (x, y)
\* back, and so does the 180 rewrite applied twice; the number and order of
\* the keypoints never change, and angle 0 changes nothing.
C7_RotationRoundTrip ==
    rot.phase = "rotate" =>
        /\ Len(rot.keypoints) = Len(rot.keypoints0)
        /\ rot.applied = <<90>> =>
             \A i \in DOMAIN rot.keypoints0 :
                /\ rot.keypoints[i] =
                     <<rot.keypoints0[i][2], rot.image0.w - 1 - rot.keypoints0[i][1]>>
                /\ (rot.image0 = [w |-> 100, h |-> 50] /\ rot.keypoints0[i] = <<10, 20>>)
                     => rot.keypoints[i] = <<20, 89>>
        /\ rot.applied \in {<<90, 270>>, <<180, 180>>, <<0>>, <<0, 0>>} =>
             rot.keypoints = rot.keypoints0

C7_Witness ==
    /\ rot.phase = "rotate"
    /\ rot.applied = <<90, 270>>
    /\ rot.image0 = [w |-> 100, h |-> 50]
    /\ rot.keypoints0 = <<<<10, 20>>, <<99, 49>>>>
    /\ rot.keypoints = rot.keypoints0

CropLast == crop.last

Accepted == crop.phase # "idle" /\ CropLast.outcome = "crop"

\* C8: an iteration yields a crop (two files written, one crop pair
\* appended, two offsets recorded) exactly when the pair has at least 100
\* matches, neither relative size is <= min_rel_crop_size and not both are
\* >= max_rel_crop_size.
C8_CropIffSymmetricRule ==
    (crop.phase # "idle" /\ CropLast.outcome # "none") =>
        /\ Accepted <=>
             /\ CropLast.n >= MinMatches
             /\ ~RelLeq(CropLast.rel_size_1[1], CropLast.rel_size_1[2], crop.min_rel)
             /\ ~RelLeq(CropLast.rel_size_2[1], CropLast.rel_size_2[2], crop.min_rel)
             /\ ~(/\ RelGeq(CropLast.rel_size_1[1], CropLast.rel_size_1[2], crop.max_rel)
                  /\ RelGeq(CropLast.rel_size_2[1], CropLast.rel_size_2[2], crop.max_rel))
        /\ Accepted =>
             /\ {CropLast.name_1, CropLast.name_2} \subseteq DOMAIN crop.cropped_image_dir
             /\ crop.crop_pairs[Len(crop.crop_pairs)] = <<CropLast.name_1, CropLast.name_2>>
             /\ {CropLast.name_1, CropLast.name_2} \subseteq DOMAIN crop.offsets

InImage(p, image) == 0 <= p[1] /\ p[1] < image.w /\ 0 <= p[2] /\ p[2] < image.h

CropNames == {<<k, m>> : k \in DOMAIN crop.crop_pairs, m \in {1, 2}}

\* C10: two accepted crops of different (pair, member) combinations never
\* get the same file name, so no crop file and no offset is overwritten.
C10_CropNamesDistinct ==
    crop.phase # "idle" =>
        /\ \A a \in CropNames, b \in CropNames :
             a # b => crop.crop_pairs[a[1]][a[2]] # crop.crop_pairs[b[1]][b[2]]
        /\ Cardinality(DOMAIN crop.offsets) = 2 * Len(crop.crop_pairs)

\* C11: extraction and matching on the crops are never invoked while the
\* loop over the original pairs is running, and when the loop and the steps
\* after it are over each of the two has been invoked exactly once; this in
\* Pipeline.perform_cropping and in crop_matching alike.
C11_CropEnginesOnceAfterLoop ==
    /\ crop.phase = "loop" => crop.extract_calls = 0 /\ crop.match_calls = 0
    /\ crop.phase = "merge" => crop.extract_calls = 1 /\ crop.match_calls = 1

\* the images rotate_keypoints rewrites in a run: those of rotation_angles
\* that the loop does not pass over with "if angle == 0: continue"
RotatedCount ==
    IF args.rotation_matching
    THEN Cardinality({name \in DOMAIN rotation_angles : rotation_angles[name] # 0})
    ELSE 0

\* C12: in a run whose keypoint back-rotation rotated at least one image and
\* whose rotation-wrapper mode is off, the reconstruction stage does not
\* invoke the PixSfM subprocess.
C12_NoPixSfmAfterRotatedKeypoints ==
    \A i \in DOMAIN engine_log :
        engine_log[i].engine = "pixsfm" =>
            (RotatedCount = 0 \/ args.rotation_wrapper)

\* C13: when run() has completed with the rotation wrapper on and a sparse
\* model, the model in sfm_dir holds, for every registered image, the
\* reconstructed pose turned back by the image's angle, and the
\* reconstructed pose itself where the angle is 0.
C13_PersistedModelIsBackRotated ==
    (pc = "done" /\ args.rotation_wrapper /\ sparse_model.kind = "Reconstruction") =>
        /\ disk.sfm_dir.exists
        /\ disk.sfm_dir.data.kind = "Reconstruction"
        /\ \A name \in DOMAIN disk.sfm_dir.data.images :
             disk.sfm_dir.data.images[name] =
                IF rotation_angles[name] # 0
                THEN RotMatZ(Reconstruction(img_list).images[name], rotation_angles[name])
                ELSE Reconstruction(img_list).images[name]

====
